---- MODULE Spec2Model ----
(***************************************************************************)
(* PO2XL.py: a Streamlit script that takes an uploaded Purchase Order      *)
(* (image or PDF), sends it once to a hosted model, parses the reply as a  *)
(* pipe-delimited table, shows the table and offers it as data.xlsx.       *)
(*                                                                         *)
(* A text is a sequence of tokens.  The tokens are the pipe "|", the       *)
(* newline "\n", the blank " " and words ("a", "Unnamed", ...).  A cell    *)
(* and a column label are sequences of tokens as well.                     *)
(***************************************************************************)
EXTENDS Naturals, Sequences, FiniteSets, TLC

VARIABLES
    pc,             \* where the script run is
    uploaded_file,  \* st.file_uploader's value in this run
    image_data,     \* the script's image_data
    pdf_text,       \* the script's pdf_text
    response,       \* the script's response
    df,             \* the script's df
    ui,             \* the elements this run has put on the page, in order
    table,          \* the frame st.dataframe shows
    artifact,       \* the file st.download_button offers
    crashed,        \* an exception left the script
    oracle,         \* what the hosted model answers to this run's document
    reply,          \* what the hosted model answered in this run
    calls,          \* generate_content calls made in this run
    memo            \* an earlier run of the session, kept for comparison

vars == <<pc, uploaded_file, image_data, pdf_text, response, df, ui, table,
          artifact, crashed, oracle, reply, calls, memo>>

\* ------------------------------------------------------------------ bounds
\* Most lines of a model reply.
MaxLines == 3
\* Most cells of one line of a model reply.
MaxCells == 2
\* Most lines of a reply in the session specification.
MaxSessionLines == 2

\* ------------------------------------------------------------ text helpers
PIPE == "|"
NL == "\n"

IsSpace(c) == c \in {" ", "\n"}

RECURSIVE Flatten(_, _)
\* The parts joined by the separator token.
Flatten(parts, sep) ==
    IF parts = <<>> THEN <<>>
    ELSE IF Len(parts) = 1 THEN parts[1]
    ELSE parts[1] \o <<sep>> \o Flatten(Tail(parts), sep)

RECURSIVE SplitAcc(_, _, _)
SplitAcc(s, sep, cur) ==
    IF s = <<>> THEN <<cur>>
    ELSE IF s[1] = sep THEN <<cur>> \o SplitAcc(Tail(s), sep, <<>>)
    ELSE SplitAcc(Tail(s), sep, Append(cur, s[1]))

\* str.split(sep): the pieces of s between the separators.
Split(s, sep) == SplitAcc(s, sep, <<>>)

\* str.strip() leaves something: some token is not whitespace.
StripNonEmpty(s) == \E i \in 1..Len(s) : ~IsSpace(s[i])

\* ^Unnamed: the name starts with the word Unnamed.
StartsWithUnnamed(name) == Len(name) >= 1 /\ name[1] = "Unnamed"

\* --------------------------------------------------------------- DataFrame
\* A frame: its column labels, its row labels and its rows (one cell per
\* column).  A missing value is the cell <<"NaN">>.
NaN == <<"NaN">>
EmptyFrame == [columns |-> <<>>, index |-> <<>>, rows |-> <<>>]

\* The positions i..n that are in the set keep, in increasing order.
RECURSIVE Positions(_, _, _)
Positions(n, i, keep) ==
    IF i > n THEN <<>>
    ELSE (IF i \in keep THEN <<i>> ELSE <<>>) \o Positions(n, i + 1, keep)

Pick(s, ps) == [k \in 1..Len(ps) |-> s[ps[k]]]

\* A line the tokenizer skips (skip_blank_lines): empty or blanks only.
IsBlankLine(l) == \A i \in 1..Len(l) : l[i] = " "

\* The records of a text: its lines, blank ones skipped, each cut at the pipes.
Records(text) ==
    LET ls == Split(text, NL)
        notBlank == {i \in 1..Len(ls) : ~IsBlankLine(ls[i])}
        kept == Pick(ls, Positions(Len(ls), 1, notBlank))
    IN  [k \in 1..Len(kept) |-> Split(kept[k], PIPE)]

\* The label of header cell i (0-based position in the label): an empty
\* cell gets the placeholder "Unnamed: i".
HeaderLabel(cell, i) ==
    IF cell = <<>> THEN <<"Unnamed", ": ", ToString(i - 1)>> ELSE cell

\* mangle_dupe_cols: the k-th repeat of a label gets the suffix ".k".
MangleDupes(labels) ==
    [i \in 1..Len(labels) |->
        LET k == Cardinality({j \in 1..(i - 1) : labels[j] = labels[i]})
        IN  IF k = 0 THEN labels[i] ELSE Append(labels[i], "." \o ToString(k))]

\* One data record as a row of the given width: short records are padded
\* with missing values and empty cells are missing values.
DataRow(rec, width) ==
    [c \in 1..width |->
        IF c > Len(rec) \/ rec[c] = <<>> THEN NaN ELSE rec[c]]

\* The frame of the records of a text: the first record is the header, the
\* others are the rows, labelled 0, 1, 2, ...  No record: EmptyDataError.
FrameOf(rs) ==
    IF rs = <<>>
    THEN [err |-> "EmptyDataError", val |-> EmptyFrame]
    ELSE LET width == Len(rs[1])
             n == Len(rs) - 1
         IN  [err |-> "",
              val |-> [columns |-> MangleDupes(
                            [i \in 1..width |-> HeaderLabel(rs[1][i], i)]),
                       index |-> [r \in 1..n |-> r - 1],
                       rows |-> [r \in 1..n |-> DataRow(rs[r + 1], width)]]]

\* pd.read_csv(StringIO(text), delimiter='|')
read_csv(text) == FrameOf(Records(text))

\* A pattern that matches the placeholder "Unnamed: N" only.
IsPlaceholder(label) ==
    Len(label) >= 2 /\ label[1] = "Unnamed" /\ label[2] = ": "

\* df.columns.str.contains('^Unnamed'), per column.
IsUnnamed(label) == StartsWithUnnamed(label)

\* df.loc[:, ~df.columns.str.contains('^Unnamed')]
drop_unnamed(d) ==
    LET named == {i \in 1..Len(d.columns) : ~IsUnnamed(d.columns[i])}
        ps == Positions(Len(d.columns), 1, named)
    IN  [columns |-> Pick(d.columns, ps),
         index |-> d.index,
         rows |-> [r \in 1..Len(d.rows) |-> Pick(d.rows[r], ps)]]

\* df.drop(label, errors='ignore'): a missing label is no error.
drop_ignore_missing(d, label) ==
    LET others == {r \in 1..Len(d.index) : d.index[r] # label}
        ps == Positions(Len(d.index), 1, others)
    IN  [err |-> "",
         val |-> [columns |-> d.columns,
                  index |-> Pick(d.index, ps),
                  rows |-> Pick(d.rows, ps)]]

\* df.drop(label): the rows with that label removed; KeyError when no row
\* has it.
drop(d, label) ==
    IF \A r \in 1..Len(d.index) : d.index[r] # label
    THEN [err |-> "KeyError", val |-> d]
    ELSE LET others == {r \in 1..Len(d.index) : d.index[r] # label}
             ps == Positions(Len(d.index), 1, others)
         IN  [err |-> "",
              val |-> [columns |-> d.columns,
                       index |-> Pick(d.index, ps),
                       rows |-> Pick(d.rows, ps)]]

\* The frame with its row labels left as they are.
keep_index(d) == d

\* df.reset_index(drop=True): the rows relabelled 0, 1, 2, ...
reset_index(d) ==
    [columns |-> d.columns,
     index |-> [r \in 1..Len(d.index) |-> r - 1],
     rows |-> d.rows]

\* ------------------------------------------------------------------ inputs
\* An upload: its declared media type and what its bytes are.  An image is
\* "ok" or "corrupt" (PIL cannot open it); a PDF is "ok", "notext" (no page
\* has text) or "corrupt" (PyMuPDF cannot open it).
ImageTypes == {"image/jpeg", "image/png", "image/jpg"}
PdfType == "application/pdf"
OtherTypes == {"text/csv"}

NoFile == [present |-> FALSE, type |-> "", content |-> ""]
Files ==
    [present : {TRUE}, type : ImageTypes, content : {"ok", "corrupt"}]
    \cup [present : {TRUE}, type : {PdfType}, content : {"ok", "notext", "corrupt"}]
    \cup [present : {TRUE}, type : OtherTypes, content : {"ok"}]
Uploads == {NoFile} \cup Files

\* The cells a header line and a data line of a reply are made of.
HeaderCells == {<<>>, <<"a">>, <<"Unnamed">>}
DataCells == {<<>>, <<"a">>}

\* The sequences over S of length lo..hi.
SeqsOf(S, lo, hi) == UNION {[1..n -> S] : n \in lo..hi}

\* What the hosted model does with a call: it raises, or it answers a text.
NoReply == [kind |-> "none", text |-> <<>>]
AnyReply == [kind |-> "any", text |-> <<>>]
Raises == [kind |-> "raises", text |-> <<>>]
Text(t) == [kind |-> "text", text |-> t]

\* The data lines of at most w cells.
DataLines(w) == {Flatten(cs, PIPE) : cs \in SeqsOf(DataCells, 1, w)}

\* The target (oracle' or reply') is some reply: the call raises, or the text
\* is empty, or it has at most maxLines lines: a header line of at most
\* maxCells cells, then data lines of no more cells than the header line.
\* (A data line wider than the header makes pandas build an index from the
\* leading fields or reject the line; such replies are not drawn.)
ForSomeReply(maxLines, maxCells, target) ==
    \/ \E rep \in {Raises, Text(<<>>)} : target = rep
    \/ \E w \in 1..maxCells : \E h \in [1..w -> HeaderCells] :
       \E n \in 0..(maxLines - 1) : \E t \in [1..n -> DataLines(w)] :
           target = Text(Flatten(<<Flatten(h, PIPE)>> \o t, NL))

\* ------------------------------------------------------------ page elements
Element(kind, text, exc) == [kind |-> kind, text |-> text, exc |-> exc]
IsError(e) == e.kind = "error"
ErrorShown == \E i \in 1..Len(ui) : IsError(ui[i])

None == [none |-> TRUE, val |-> <<>>]
Some(v) == [none |-> FALSE, val |-> v]
NoFrame == [set |-> FALSE, val |-> EmptyFrame]
NoArtifact == [set |-> FALSE, file_name |-> "", mime |-> "", val |-> EmptyFrame]

\* ----------------------------------------------------------------- helpers
\* input_image_setup(uploaded_file): the parts for the model, or a warning
\* and None when there is no file.
input_image_setup(file) ==
    IF file.present
    THEN [ret |-> Some(<<[mime_type |-> file.type, data |-> <<file.content>>]>>),
          out |-> <<>>]
    ELSE [ret |-> None,
          out |-> <<Element("warning", "No file uploaded.", "")>>]

\* process_pdf(uploaded_file): the text of all pages, or an error message
\* and None when the document cannot be read.
process_pdf(file) ==
    IF file.content = "corrupt"
    THEN [ret |-> None,
          out |-> <<Element("error", "Error processing PDF", "FileDataError")>>]
    ELSE [ret |-> Some(IF file.content = "notext" THEN <<>> ELSE <<"po", " ", "text">>),
          out |-> <<>>]

\* A get_po_details that tries again after a failed or empty call.
AttemptsWithRetry(rep) == IF rep.kind = "raises" \/ rep.text = <<>> THEN 2 ELSE 1

\* The generate_content calls one get_po_details call makes.
Attempts(rep) == 1

\* get_po_details(image_parts) when the hosted model does rep: the text, or
\* an error message and None when the call raises or the text is empty.
get_po_details(image_parts, rep) ==
    IF rep.kind = "raises"
    THEN [ret |-> None,
          out |-> <<Element("error", "Error with Gemini model", "APIError")>>]
    ELSE IF rep.text = <<>>
    THEN [ret |-> None,
          out |-> <<Element("error", "Error with Gemini model", "ValueError")>>]
    ELSE [ret |-> Some(rep.text), out |-> <<>>]

\* file_type in ["image/jpeg", "image/png", "image/jpg"]
IsImage(type) == type \in ImageTypes

\* The `elif` of a mistaken classification: whatever is not an image.
IsNotImage(type) == type \notin ImageTypes

\* file_type == "application/pdf"
IsPdf(type) == type = PdfType

\* `if x:` for a value that is None, a string or a list.
Truthy(x) == ~x.none /\ x.val # <<>>

\* A handler that names the parsing errors only.
OuterCatchesParsingOnly(exc) == exc \in {"EmptyDataError", "ParserError", "KeyError"}

\* The exceptions the handler around the parsing block catches.
OuterCatches(exc) == TRUE

\* df.to_excel(buffer, index=False): the labels and the rows, no index.
to_excel(d) == [columns |-> d.columns, index |-> <<>>, rows |-> d.rows]

\* What a run has produced for the user.
Outcome == [ui |-> ui, table |-> table, artifact |-> artifact,
            crashed |-> crashed, calls |-> calls]

NoMemo == [set |-> FALSE, file |-> NoFile, oracle |-> NoReply,
           outcome |-> [ui |-> <<>>, table |-> NoFrame, artifact |-> NoArtifact,
                        crashed |-> FALSE, calls |-> 0]]

\* An image_data that is not set anew and keeps the last run's value.
StaleImageData == image_data

\* image_data = None, at the top of every run.
InitialImageData == None

\* ----------------------------------------------------------------- actions
Init ==
    /\ pc = "start"
    /\ uploaded_file = NoFile
    /\ image_data = None
    /\ pdf_text = None
    /\ response = None
    /\ df = NoFrame
    /\ ui = <<>>
    /\ table = NoFrame
    /\ artifact = NoArtifact
    /\ crashed = FALSE
    /\ oracle = NoReply
    /\ reply = NoReply
    /\ calls = 0
    /\ memo = NoMemo

\* A run of the script begins (from one of the places in `from`): the
\* uploader holds a file or none, the page is cleared and the script's
\* variables are set anew.  With `fixed`, the hosted model's answer to the
\* document is drawn here; otherwise it is drawn at the call.
Upload(from, fixed) ==
    /\ pc \in from
    /\ \E f \in Uploads : uploaded_file' = f
    /\ IF fixed
       THEN ForSomeReply(MaxSessionLines, 1, oracle')
       ELSE oracle' = AnyReply
    /\ image_data' = InitialImageData
    /\ pdf_text' = None
    /\ response' = None
    /\ df' = NoFrame
    /\ ui' = <<>>
    /\ table' = NoFrame
    /\ artifact' = NoArtifact
    /\ crashed' = FALSE
    /\ reply' = NoReply
    /\ calls' = 0
    /\ pc' = "intake"
    /\ UNCHANGED memo

\* An exception leaves the script: the run ends there.
Crash(shown, exc) ==
    /\ ui' = shown \o <<Element("exception", "", exc)>>
    /\ crashed' = TRUE
    /\ pc' = "done"

\* The upload is classified and turned into the parts for the model.
Intake ==
    /\ pc = "intake"
    /\ IF ~uploaded_file.present
       THEN /\ pc' = "extract"
            /\ UNCHANGED <<image_data, pdf_text, ui, crashed>>
       ELSE IF IsImage(uploaded_file.type)
       THEN IF uploaded_file.content = "corrupt"
            THEN /\ Crash(ui, "UnidentifiedImageError")
                 /\ UNCHANGED <<image_data, pdf_text>>
            ELSE LET r == input_image_setup(uploaded_file)
                 IN  /\ ui' = ui \o <<Element("image", "Uploaded PO Image", "")>> \o r.out
                     /\ image_data' = r.ret
                     /\ pc' = "extract"
                     /\ UNCHANGED <<pdf_text, crashed>>
       ELSE IF IsPdf(uploaded_file.type)
       THEN LET r == process_pdf(uploaded_file)
                shown == ui \o r.out \o
                    (IF Truthy(r.ret)
                     THEN <<Element("subheader", "Uploaded PDF Content Preview", ""),
                            Element("text_area", "PDF Content", "")>>
                     ELSE <<>>)
            IN  /\ pdf_text' = r.ret
                /\ IF r.ret.none
                   THEN /\ Crash(shown, "AttributeError")
                        /\ UNCHANGED image_data
                   ELSE /\ image_data' =
                            Some(<<[mime_type |-> "text/plain", data |-> r.ret.val]>>)
                        /\ ui' = shown
                        /\ pc' = "extract"
                        /\ UNCHANGED crashed
       ELSE /\ pc' = "extract"
            /\ UNCHANGED <<image_data, pdf_text, ui, crashed>>
    /\ UNCHANGED <<uploaded_file, response, df, table, artifact, oracle, reply,
                   calls, memo>>

\* response = get_po_details(image_data) when the hosted model does rep.
Call(rep) ==
    LET r == get_po_details(image_data.val, rep)
    IN  /\ calls' = calls + Attempts(rep)
        /\ response' = r.ret
        /\ ui' = ui \o <<Element("subheader",
                           "Extracted Purchase Order Details", "")>> \o r.out
        /\ pc' = "parse"

\* `if image_data:` and the call to the hosted model.
Extract ==
    /\ pc = "extract"
    /\ IF ~Truthy(image_data)
       THEN /\ pc' = "done"
            /\ UNCHANGED <<response, ui, reply, calls>>
       ELSE IF oracle = AnyReply
       THEN ForSomeReply(MaxLines, MaxCells, reply') /\ Call(reply')
       ELSE reply' = oracle /\ Call(reply')
    /\ UNCHANGED <<uploaded_file, image_data, pdf_text, df, table, artifact,
                   crashed, oracle, memo>>

\* The parsing block's handler: the message, or the exception leaves the script.
Failed(exc) ==
    IF OuterCatches(exc)
    THEN /\ ui' = Append(ui, Element("error",
                    "Failed to process the response. Please try again.", exc))
         /\ pc' = "done"
         /\ UNCHANGED crashed
    ELSE Crash(ui, exc)

\* The body of the try block after the call: the response is checked and
\* parsed into df, the frame is shown and the spreadsheet is offered.
ParseAndPresent ==
    /\ pc = "parse"
    /\ IF response.none
       THEN Failed("AttributeError") /\ UNCHANGED <<df, table, artifact>>
       ELSE IF ~StripNonEmpty(response.val)
       THEN /\ ui' = Append(ui, Element("error",
                        "The response is empty. Unable to extract data.", ""))
            /\ pc' = "done"
            /\ UNCHANGED <<df, table, artifact, crashed>>
       ELSE \E r1 \in {read_csv(response.val)} :
            \E d2 \in {drop_unnamed(r1.val)} :
            \E r3 \in {drop(d2, 0)} :
                IF r1.err # ""
                THEN Failed(r1.err) /\ UNCHANGED <<df, table, artifact>>
                ELSE IF r3.err # ""
                THEN /\ Failed(r3.err)
                     /\ df' = [set |-> TRUE, val |-> d2]
                     /\ UNCHANGED <<table, artifact>>
                ELSE /\ df' = [set |-> TRUE, val |-> reset_index(r3.val)]
                     /\ table' = [set |-> TRUE, val |-> df'.val]
                     /\ artifact' = [set |-> TRUE, file_name |-> "data.xlsx",
                            mime |-> "application/vnd.openxmlformats-officedocument.spreadsheetml.sheet",
                            val |-> to_excel(df'.val)]
                     /\ ui' = ui \o <<Element("dataframe", "", ""),
                                      Element("download_button", "Download as Excel", "")>>
                     /\ pc' = "done"
                     /\ UNCHANGED crashed
    /\ UNCHANGED <<uploaded_file, image_data, pdf_text, response, oracle,
                   reply, calls, memo>>

\* The finished run is kept for comparison with a later one.
Remember ==
    /\ pc = "done"
    /\ memo' = [set |-> TRUE, file |-> uploaded_file, oracle |-> oracle,
                outcome |-> Outcome]
    /\ pc' = "kept"
    /\ UNCHANGED <<uploaded_file, image_data, pdf_text, response, df, ui,
                   table, artifact, crashed, oracle, reply, calls>>

Next ==
    \/ Upload({"start"}, FALSE)
    \/ Intake
    \/ Extract
    \/ ParseAndPresent

\* One run of the script on a fresh page, for every upload and every reply.
Spec == Init /\ [][Next]_vars

\* A session of runs in which the hosted model's answer to each document is
\* fixed when the run begins.
NextSession ==
    \/ Upload({"start", "done", "kept"}, TRUE)
    \/ Intake
    \/ Extract
    \/ ParseAndPresent
    \/ Remember

SpecSession == Init /\ [][NextSession]_vars

\* ------------------------------------------------------------------ claims
Done == pc = "done"
HasPipe(t) == \E i \in 1..Len(t) : t[i] = PIPE
NothingProduced == ~table.set /\ ~artifact.set
Unsupported(type) == type \notin ImageTypes \cup {PdfType}

\* The position of the first element of the given kind in ui, 0 when none.
FirstOf(kind) ==
    IF \E i \in 1..Len(ui) : ui[i].kind = kind
    THEN CHOOSE i \in 1..Len(ui) :
            /\ ui[i].kind = kind
            /\ \A j \in 1..(i - 1) : ui[j].kind # kind
    ELSE 0

\* The header cells of a reply that give a column of the final table: not
\* empty (those get the placeholder label) and not starting with Unnamed.
NamedCells(header) ==
    Positions(Len(header), 1,
        {i \in 1..Len(header) : header[i] # <<>> /\ ~StartsWithUnnamed(header[i])})

\* A data record as it shows under the columns at positions keep.
Shown(rec, keep) ==
    [k \in 1..Len(keep) |-> IF rec[keep[k]] = <<>> THEN NaN ELSE rec[keep[k]]]

\* The records are a table with a header, at least n data rows and at least
\* two cells in every line, the same number in each.
ValidTable(recs, n) ==
    /\ Len(recs) >= n + 1
    /\ Len(recs[1]) >= 2
    /\ \A k \in 1..Len(recs) : Len(recs[k]) = Len(recs[1])

\* C1: a run whose reply text has no pipe ends with an error message, no
\* table, no artifact and no exception leaving the script.
C1_NoPipeIsParseError ==
    (Done /\ reply.kind = "text" /\ ~HasPipe(reply.text))
        => (ErrorShown /\ NothingProduced /\ ~crashed)

\* C2: a run whose PDF cannot be read ends with an error message, no call to
\* the hosted model, no table, no artifact and no exception leaving the script.
C2_PdfFailureAborts ==
    (Done /\ uploaded_file.present /\ uploaded_file.type = PdfType
          /\ uploaded_file.content = "corrupt")
        => (ErrorShown /\ calls = 0 /\ NothingProduced /\ ~crashed)

\* C3: a run whose reply text is empty or whitespace only ends with an error
\* message, no frame built, no table, no artifact and no exception leaving
\* the script.
C3_EmptyResponseReported ==
    (Done /\ reply.kind = "text" /\ ~StripNonEmpty(reply.text))
        => (ErrorShown /\ ~df.set /\ NothingProduced /\ ~crashed)

C3_Witness ==
    /\ Done /\ reply.kind = "text" /\ reply.text # <<>>
    /\ ~StripNonEmpty(reply.text) /\ ErrorShown

C6_UnsupportedTypeNoAction ==
    (uploaded_file.present /\ Unsupported(uploaded_file.type))
        => (calls = 0 /\ reply = NoReply /\ ~df.set /\ NothingProduced)

C6_Witness ==
    Done /\ uploaded_file.present /\ Unsupported(uploaded_file.type)

\* C7: a run with no file ends with a message to the user and no call to the
\* hosted model.
C7_NoFileReported ==
    (Done /\ ~uploaded_file.present)
        => (calls = 0 /\ \E i \in 1..Len(ui) : ui[i].kind \in {"warning", "error"})

\* C8: a run makes at most one call to the hosted model, also when the call
\* raises or answers an empty text.
C8_AtMostOneCall ==
    /\ calls <= 1
    /\ reply # NoReply => calls = 1

C8_Witness ==
    /\ Done /\ calls = 1 /\ ErrorShown
    /\ reply.kind = "raises" \/ reply.text = <<>>

\* C9: a finished run can be followed by a new one, and a run's outcome is
\* the outcome of every earlier run of the session with the same upload and
\* the same answer of the hosted model.
C9_Stateless ==
    Done =>
        /\ ENABLED Upload({"done"}, TRUE)
        /\ (memo.set /\ memo.file = uploaded_file /\ memo.oracle = oracle)
                => memo.outcome = Outcome

C9_Witness ==
    /\ Done /\ memo.set /\ memo.file = uploaded_file /\ memo.oracle = oracle
    /\ \E i \in 1..Len(memo.outcome.ui) : IsError(memo.outcome.ui[i])
    /\ calls = 1

\* C10: the artifact is offered, as data.xlsx, only in a run whose reply is a
\* text that is not blank and has a data row to drop, after the table made
\* from it was shown, with no error message and no exception.
C10_ArtifactOnlyAfterTable ==
    artifact.set =>
        /\ artifact.file_name = "data.xlsx"
        /\ calls = 1 /\ reply.kind = "text" /\ StripNonEmpty(reply.text)
        /\ Len(Records(reply.text)) >= 2
        /\ ~ErrorShown /\ ~crashed
        /\ table.set /\ artifact.val = to_excel(table.val)
        /\ 0 < FirstOf("dataframe")
        /\ FirstOf("dataframe") < FirstOf("download_button")

C10_Witness ==
    Done /\ artifact.set /\ artifact.val.rows # <<>>

====
